---------------------------- MODULE Spec2Model ----------------------------
(***************************************************************************)
(* Model of the autodoc Rust core (rust-core/src): entity.rs (CodeEntity   *)
(* and its two heuristics), parser.rs (PythonParser and EntityVisitor) and *)
(* the CodeEntity -> PyCodeEntity conversion of lib.rs.                    *)
(*                                                                         *)
(* Strings are sequences of one-character strings, so that substring       *)
(* search, lower-casing and the quoted-literal regex are computed as the   *)
(* code computes them.  Option<T> is a record [some, val].                 *)
(***************************************************************************)
EXTENDS Integers, Sequences, FiniteSets, TLC

VARIABLES
    \* ---- parser.rs: one call of parse_file / parse_source
    source,         \* the file's text: a sequence of logical lines
    file_path,      \* the path argument
    readable,       \* whether fs::read_to_string succeeds on file_path
    pc,             \* position of the call: "start", "visit", "done"
    frames,         \* the active `for stmt in ...` loops: <<[body, idx], ...>>
    class_context,  \* EntityVisitor.class_context
    entities,       \* the accumulator Vec<CodeEntity>
    result,         \* the Result returned: [kind, entities]
    origin,         \* history: source line of the node each entity came from
    ctx_at_visit,   \* history: Len(class_context) when each entity was built
    \* ---- entity.rs / lib.rs: one CodeEntity value in the hands of a caller
    entity,         \* the CodeEntity
    prev_path,      \* history: entity.endpoint_path before the last operation
    last_op,        \* history: name of the last operation
    py              \* the PyCodeEntity built from it, once moved

vars == <<source, file_path, readable, pc, frames, class_context, entities,
          result, origin, ctx_at_visit, entity, prev_path, last_op, py>>

parserVars == <<source, readable, pc, frames, class_context, entities,
                result, origin, ctx_at_visit>>

entityVars == <<entity, prev_path, last_op, py>>

-----------------------------------------------------------------------------
(* Bounds of the model *)

MaxLines == 3
MaxDepth == 2
MaxDecorators == 2
MaxDecoParts == 2
MaxCodeParts == 2
MaxParams == 2

-----------------------------------------------------------------------------
(* Option<T> and strings *)

None == [some |-> FALSE, val |-> <<>>]

Some(x) == [some |-> TRUE, val |-> x]

DQ == "\""

SQ == "'"

UpperCase == <<"A","B","C","D","E","F","G","H","I","J","K","L","M",
               "N","O","P","Q","R","S","T","U","V","W","X","Y","Z">>

LowerCase == <<"a","b","c","d","e","f","g","h","i","j","k","l","m",
               "n","o","p","q","r","s","t","u","v","w","x","y","z">>

\* char::to_lowercase on the characters the model uses
LowerChar(c) ==
    IF \E i \in DOMAIN UpperCase : UpperCase[i] = c
    THEN LowerCase[CHOOSE i \in DOMAIN UpperCase : UpperCase[i] = c]
    ELSE c

\* str::to_lowercase
to_lowercase(s) == [i \in DOMAIN s |-> LowerChar(s[i])]

\* the pattern occurs in s starting at index i
MatchesAt(s, pat, i) ==
    /\ i >= 1
    /\ i + Len(pat) - 1 <= Len(s)
    /\ SubSeq(s, i, i + Len(pat) - 1) = pat

\* str::contains
contains(s, pat) == \E i \in 1..(Len(s) + 1) : MatchesAt(s, pat, i)

\* str::matches(pat).count(): occurrences found scanning left to right, the
\* search resuming after the end of each occurrence (non-overlapping)
RECURSIVE CountFrom(_, _, _)
CountFrom(s, pat, i) ==
    IF i + Len(pat) - 1 > Len(s) THEN 0
    ELSE IF MatchesAt(s, pat, i) THEN 1 + CountFrom(s, pat, i + Len(pat))
    ELSE CountFrom(s, pat, i + 1)

matches_count(s, pat) == CountFrom(s, pat, 1)

\* all concatenations of at most n strings of T
RECURSIVE TokenStrings(_, _)
TokenStrings(T, n) ==
    IF n = 0 THEN {<<>>}
    ELSE LET shorter == TokenStrings(T, n - 1)
         IN  shorter \cup {p \o t : p \in shorter, t \in T}

-----------------------------------------------------------------------------
(* entity.rs *)

\* CodeEntity::new
CodeEntity_new(entity_type, name, path, line_number) ==
    [ entity_type      |-> entity_type,
      name             |-> name,
      file_path        |-> path,
      line_number      |-> line_number,
      docstring        |-> None,
      code             |-> <<>>,
      is_async         |-> FALSE,
      decorators       |-> <<>>,
      parameters       |-> <<>>,
      return_type      |-> None,
      is_internal      |-> FALSE,
      is_api_endpoint  |-> FALSE,
      endpoint_path    |-> None,
      http_methods     |-> <<>>,
      complexity_score |-> 1 ]

\* the control_flow array of calculate_complexity
control_flow == << <<"i","f"," ">>,
                   <<"f","o","r"," ">>,
                   <<"w","h","i","l","e"," ">>,
                   <<"m","a","t","c","h"," ">>,
                   <<"l","o","o","p"," ">> >>

\* the `for keyword in &control_flow` loop: score after keywords k..5
RECURSIVE AddControlFlow(_, _, _)
AddControlFlow(score, code, k) ==
    IF k > Len(control_flow) THEN score
    ELSE AddControlFlow(score + matches_count(code, control_flow[k]), code, k + 1)

\* faulty variant: the score starts from the old complexity_score, not from 1
calculate_complexity_accumulate(e) ==
    LET s1 == e.complexity_score + Len(e.parameters)
        s2 == s1 + matches_count(e.code, <<"{">>)
        s3 == AddControlFlow(s2, e.code, 1)
        s4 == IF e.is_async THEN s3 + 2 ELSE s3
    IN  [e EXCEPT !.complexity_score = s4]

\* CodeEntity::calculate_complexity
calculate_complexity(e) ==
    LET s1 == 1 + Len(e.parameters)
        s2 == s1 + matches_count(e.code, <<"{">>)
        s3 == AddControlFlow(s2, e.code, 1)
        s4 == IF e.is_async THEN s3 + 2 ELSE s3
    IN  [e EXCEPT !.complexity_score = s4]

\* the api_decorators array of detect_api_endpoint
api_decorators == << <<"r","o","u","t","e">>,
                     <<"g","e","t">>,
                     <<"p","o","s","t">>,
                     <<"p","u","t">>,
                     <<"d","e","l","e","t","e">>,
                     <<"p","a","t","c","h">>,
                     <<"a","p","i">> >>

IsQuote(c) == c \in {DQ, SQ}

\* index of the first quote character of d at or after i, 0 when there is none
RECURSIVE NextQuote(_, _)
NextQuote(d, i) ==
    IF i > Len(d) THEN 0
    ELSE IF IsQuote(d[i]) THEN i
    ELSE NextQuote(d, i + 1)

\* Regex ["']([^"']+)["'] searched from index i: the leftmost match's group 1
RECURSIVE RegexCaptureFrom(_, _)
RegexCaptureFrom(d, i) ==
    IF i > Len(d) THEN None
    ELSE IF /\ IsQuote(d[i])
            /\ i + 1 <= Len(d)
            /\ ~IsQuote(d[i + 1])
            /\ NextQuote(d, i + 1) # 0
         THEN Some(SubSeq(d, i + 1, NextQuote(d, i + 1) - 1))
         ELSE RegexCaptureFrom(d, i + 1)

\* faulty variant: the text between the first two quotes, empty or not
extract_path_any_text(decorator) ==
    LET i == NextQuote(decorator, 1)
        j == IF i = 0 THEN 0 ELSE NextQuote(decorator, i + 1)
    IN  IF j = 0 THEN None ELSE Some(SubSeq(decorator, i + 1, j - 1))

\* extract_path_from_decorator
extract_path_from_decorator(decorator) == RegexCaptureFrom(decorator, 1)

\* the `for decorator in &self.decorators` loop of detect_api_endpoint, from
\* index k: the path of the first decorator that yields one, else the old value
RECURSIVE ScanDecorators(_, _, _)
ScanDecorators(decorators, k, old) ==
    IF k > Len(decorators) THEN old
    ELSE IF extract_path_from_decorator(decorators[k]).some
         THEN extract_path_from_decorator(decorators[k])
         ELSE ScanDecorators(decorators, k + 1, old)

\* the closure of detect_api_endpoint's outer any()
IsApiDecorator(d) ==
    \E k \in DOMAIN api_decorators : contains(to_lowercase(d), api_decorators[k])

\* CodeEntity::detect_api_endpoint
detect_api_endpoint(e) ==
    LET is_api == \E k \in DOMAIN e.decorators : IsApiDecorator(e.decorators[k])
    IN  [e EXCEPT !.is_api_endpoint = is_api,
                  !.endpoint_path =
                      IF is_api THEN ScanDecorators(e.decorators, 1, e.endpoint_path)
                      ELSE e.endpoint_path]

-----------------------------------------------------------------------------
(* lib.rs *)

\* a unit of a path that is not valid Unicode, and U+FFFD
InvalidUnit == "<invalid>"

ReplacementChar == "<U+FFFD>"

\* Path::to_string_lossy().to_string()
to_string_lossy(path) ==
    [i \in DOMAIN path |-> IF path[i] = InvalidUnit THEN ReplacementChar ELSE path[i]]

\* impl From<CodeEntity> for PyCodeEntity
PyCodeEntity_from(e) ==
    [ entity_type |-> e.entity_type,
      name        |-> e.name,
      file_path   |-> to_string_lossy(e.file_path),
      line_number |-> e.line_number,
      docstring   |-> e.docstring,
      code        |-> e.code,
      is_async    |-> e.is_async,
      decorators  |-> e.decorators,
      parameters  |-> e.parameters,
      return_type |-> e.return_type ]

-----------------------------------------------------------------------------
(* Inputs *)

Str_function == "function"

Str_method == "method"

Str_class == "class"

Paths == { <<"t","e","s","t",".","p","y">>, <<"t", InvalidUnit, ".","p","y">> }

\* decorator strings a caller may store in the public `decorators` field
Deco_route == <<"r","o","u","t","e","(",DQ,"/","a","p","i","/","u","s","e","r","s",DQ,")">>

Deco_cache == <<"c","a","c","h","e">>

Deco_test == <<"@","a","p","p",".","r","o","u","t","e","(",SQ,"/","a","p","i","/","u","s","e","r","s",SQ,")">>

Deco_GET == <<"G","E","T">>

Deco_two_literals == <<"g","e","t","(",DQ,DQ,",",SQ,"p",SQ,")">>

Deco_mixed == <<"x","(",SQ,"p",DQ,")">>

QuoteTokens == { <<DQ>>, <<"p">> }

DecoratorStrings ==
    {Deco_route, Deco_cache, Deco_test, Deco_GET, Deco_two_literals, Deco_mixed}
        \cup TokenStrings(QuoteTokens, MaxDecoParts)

CodeTokens == { <<"i","f"," ">>, <<"f","o","r"," ">>, <<"w","h","i","l","e"," ">>,
                <<"m","a","t","c","h"," ">>, <<"l","o","o","p"," ">>,
                <<"{">>, <<"i","f">>, <<"x">>, <<" ">> }

Codes == TokenStrings(CodeTokens, MaxCodeParts)

-----------------------------------------------------------------------------
(* A caller holding one CodeEntity: its fields are public, its methods may  *)
(* be called in any order, and `into()` moves it into a PyCodeEntity.       *)

ParserIdle ==
    /\ source = <<>>
    /\ readable = TRUE
    /\ pc = "idle"
    /\ frames = <<>>
    /\ class_context = <<>>
    /\ entities = <<>>
    /\ result = [kind |-> "none", entities |-> <<>>]
    /\ origin = <<>>
    /\ ctx_at_visit = <<>>

InitEntity ==
    /\ ParserIdle
    /\ file_path \in Paths
    /\ entity = CodeEntity_new(Str_function, <<"f">>, file_path, 1)
    /\ prev_path = None
    /\ last_op = "new"
    /\ py = <<>>

\* entity.decorators.push(d)
PushDecorator(d) ==
    /\ last_op # "into"
    /\ Len(entity.decorators) < MaxDecorators
    /\ entity' = [entity EXCEPT !.decorators = Append(@, d)]
    /\ prev_path' = entity.endpoint_path
    /\ last_op' = "set_decorators"
    /\ UNCHANGED <<py, file_path, parserVars>>

\* entity.decorators.clear()
ClearDecorators ==
    /\ last_op # "into"
    /\ entity.decorators # <<>>
    /\ entity' = [entity EXCEPT !.decorators = <<>>]
    /\ prev_path' = entity.endpoint_path
    /\ last_op' = "set_decorators"
    /\ UNCHANGED <<py, file_path, parserVars>>

\* entity.detect_api_endpoint()
DetectApiEndpoint ==
    /\ last_op # "into"
    /\ entity' = detect_api_endpoint(entity)
    /\ prev_path' = entity.endpoint_path
    /\ last_op' = "detect_api_endpoint"
    /\ UNCHANGED <<py, file_path, parserVars>>

\* let py: PyCodeEntity = entity.into()
IntoPy ==
    /\ last_op # "into"
    /\ py' = PyCodeEntity_from(entity)
    /\ prev_path' = entity.endpoint_path
    /\ last_op' = "into"
    /\ UNCHANGED <<entity, file_path, parserVars>>

NextEntity ==
    \/ \E d \in DecoratorStrings : PushDecorator(d)
    \/ ClearDecorators
    \/ DetectApiEndpoint
    \/ IntoPy

SpecEntity == InitEntity /\ [][NextEntity]_vars

-----------------------------------------------------------------------------
(* A caller holding one CodeEntity and scoring it *)

InitComplexity ==
    /\ ParserIdle
    /\ file_path = <<"t","e","s","t",".","p","y">>
    /\ entity = CodeEntity_new(Str_function, <<"f">>, file_path, 1)
    /\ prev_path = None
    /\ last_op = "new"
    /\ py = <<>>

\* entity.parameters.push("a")
PushParameter ==
    /\ Len(entity.parameters) < MaxParams
    /\ entity' = [entity EXCEPT !.parameters = Append(@, <<"a">>)]
    /\ last_op' = "set_parameters"
    /\ UNCHANGED <<prev_path, py, file_path, parserVars>>

\* entity.parameters.clear()
ClearParameters ==
    /\ entity.parameters # <<>>
    /\ entity' = [entity EXCEPT !.parameters = <<>>]
    /\ last_op' = "set_parameters"
    /\ UNCHANGED <<prev_path, py, file_path, parserVars>>

\* entity.code.push_str(t)
PushCode(t) ==
    /\ (entity.code \o t) \in Codes
    /\ entity' = [entity EXCEPT !.code = @ \o t]
    /\ last_op' = "set_code"
    /\ UNCHANGED <<prev_path, py, file_path, parserVars>>

\* entity.code.clear()
ClearCode ==
    /\ entity.code # <<>>
    /\ entity' = [entity EXCEPT !.code = <<>>]
    /\ last_op' = "set_code"
    /\ UNCHANGED <<prev_path, py, file_path, parserVars>>

\* entity.is_async = b
SetIsAsync(b) ==
    /\ entity' = [entity EXCEPT !.is_async = b]
    /\ last_op' = "set_is_async"
    /\ UNCHANGED <<prev_path, py, file_path, parserVars>>

\* entity.calculate_complexity()
CalculateComplexity ==
    /\ entity' = calculate_complexity(entity)
    /\ last_op' = "calculate_complexity"
    /\ UNCHANGED <<prev_path, py, file_path, parserVars>>

NextComplexity ==
    \/ PushParameter
    \/ ClearParameters
    \/ \E t \in CodeTokens : PushCode(t)
    \/ ClearCode
    \/ \E b \in BOOLEAN : SetIsAsync(b)
    \/ CalculateComplexity

SpecComplexity == InitComplexity /\ [][NextComplexity]_vars

-----------------------------------------------------------------------------
(* Properties of the complexity scorer *)

\* number of indices of s at which pat occurs
Occurrences(s, pat) == Cardinality({i \in 1..Len(s) : MatchesAt(s, pat, i)})

KeywordOccurrences(code) ==
    Occurrences(code, <<"i","f"," ">>)
        + Occurrences(code, <<"f","o","r"," ">>)
        + Occurrences(code, <<"w","h","i","l","e"," ">>)
        + Occurrences(code, <<"m","a","t","c","h"," ">>)
        + Occurrences(code, <<"l","o","o","p"," ">>)

\* C3: after calculate_complexity, complexity_score is exactly
\* 1 + |parameters| + (number of '{' in code) + (occurrences of the five
\* keywords "if ", "for ", "while ", "match ", "loop " in code) + (2 if
\* is_async), whatever the score was before; so it is at least 1, it is 1
\* for a plain synchronous entity and 3 for the same entity marked async.
C3_ScoreFormula ==
    last_op = "calculate_complexity" =>
        /\ entity.complexity_score =
               1 + Len(entity.parameters)
                 + Occurrences(entity.code, <<"{">>)
                 + KeywordOccurrences(entity.code)
                 + (IF entity.is_async THEN 2 ELSE 0)
        /\ entity.complexity_score >= 1
        /\ ( /\ entity.parameters = <<>>
             /\ Occurrences(entity.code, <<"{">>) = 0
             /\ KeywordOccurrences(entity.code) = 0 )
           => entity.complexity_score = (IF entity.is_async THEN 3 ELSE 1)

\* C3 witness: an async entity with two parameters and code "if {" has been
\* scored 7
C3_Witness ==
    /\ last_op = "calculate_complexity"
    /\ entity.is_async
    /\ Len(entity.parameters) = 2
    /\ entity.code = <<"i","f"," ","{">>
    /\ entity.complexity_score = 7

-----------------------------------------------------------------------------
(* Properties of the endpoint detector *)

\* C4: is_api_endpoint = false implies endpoint_path = none, for a fresh
\* entity and after detect_api_endpoint whatever the entity held before
\* (also when it is run again after the decorators were changed).
C4_PathOnlyIfEndpoint ==
    (last_op \in {"new", "detect_api_endpoint"} /\ ~entity.is_api_endpoint)
        => entity.endpoint_path = None

ApiSubstrings == { <<"r","o","u","t","e">>, <<"g","e","t">>, <<"p","o","s","t">>,
                   <<"p","u","t">>, <<"d","e","l","e","t","e">>,
                   <<"p","a","t","c","h">>, <<"a","p","i">> }

LooksLikeApi(decorators) ==
    \E k \in DOMAIN decorators : \E a \in ApiSubstrings :
        contains(to_lowercase(decorators[k]), a)

\* a string literal of d: an opening quote at i and the next occurrence of
\* the same quote character at j (the text between may be empty)
StringLiteral(d, i, j) ==
    /\ i \in 1..Len(d)
    /\ j \in (i + 1)..Len(d)
    /\ IsQuote(d[i])
    /\ d[j] = d[i]
    /\ \A m \in (i + 1)..(j - 1) : d[m] # d[i]

HasStringLiteral(d) == \E i, j \in 1..Len(d) : StringLiteral(d, i, j)

FirstStringLiteralText(d) ==
    LET i == CHOOSE x \in 1..Len(d) :
                 /\ \E j \in 1..Len(d) : StringLiteral(d, x, j)
                 /\ \A y \in 1..(x - 1) : ~\E j \in 1..Len(d) : StringLiteral(d, y, j)
        j == CHOOSE x \in 1..Len(d) : StringLiteral(d, i, x)
    IN  SubSeq(d, i + 1, j - 1)

\* a quoted run of d: a quote character of either kind at i, one or more
\* characters that are not quotes, and a quote character of either kind at j
QuotedRun(d, i, j) ==
    /\ i \in 1..Len(d)
    /\ j \in (i + 2)..Len(d)
    /\ IsQuote(d[i])
    /\ IsQuote(d[j])
    /\ \A m \in (i + 1)..(j - 1) : ~IsQuote(d[m])

HasQuotedRun(d) == \E i, j \in 1..Len(d) : QuotedRun(d, i, j)

FirstQuotedRunText(d) ==
    LET i == CHOOSE x \in 1..Len(d) :
                 /\ \E j \in 1..Len(d) : QuotedRun(d, x, j)
                 /\ \A y \in 1..(x - 1) : ~\E j \in 1..Len(d) : QuotedRun(d, y, j)
        j == CHOOSE x \in 1..Len(d) : QuotedRun(d, i, x)
    IN  SubSeq(d, i + 1, j - 1)

\* C5 as stated: after detect_api_endpoint, is_api_endpoint holds iff some
\* lower-cased decorator contains one of the seven substrings; when it
\* holds, endpoint_path is the text between the quotes of the first string
\* literal of the first decorator that contains a string literal, and is left
\* as it was when no decorator contains one.
C5_FirstStringLiteral ==
    last_op = "detect_api_endpoint" =>
        /\ entity.is_api_endpoint <=> LooksLikeApi(entity.decorators)
        /\ entity.is_api_endpoint =>
               IF \E k \in DOMAIN entity.decorators : HasStringLiteral(entity.decorators[k])
               THEN LET k == CHOOSE x \in DOMAIN entity.decorators :
                                 /\ HasStringLiteral(entity.decorators[x])
                                 /\ \A y \in 1..(x - 1) : ~HasStringLiteral(entity.decorators[y])
                    IN  entity.endpoint_path = Some(FirstStringLiteralText(entity.decorators[k]))
               ELSE entity.endpoint_path = prev_path

\* C5 amended: as C5, with "string literal" replaced by "quoted run": the
\* leftmost stretch made of a quote of either kind, one or more non-quote
\* characters and a quote of either kind; empty literals are not matched.
\* route("/api/users") gives true with "/api/users", a sole cache gives false.
C5_FirstQuotedRun ==
    last_op = "detect_api_endpoint" =>
        /\ entity.is_api_endpoint <=> LooksLikeApi(entity.decorators)
        /\ entity.is_api_endpoint =>
               IF \E k \in DOMAIN entity.decorators : HasQuotedRun(entity.decorators[k])
               THEN LET k == CHOOSE x \in DOMAIN entity.decorators :
                                 /\ HasQuotedRun(entity.decorators[x])
                                 /\ \A y \in 1..(x - 1) : ~HasQuotedRun(entity.decorators[y])
                    IN  entity.endpoint_path = Some(FirstQuotedRunText(entity.decorators[k]))
               ELSE entity.endpoint_path = prev_path
        /\ entity.decorators = <<Deco_route>> =>
               /\ entity.is_api_endpoint
               /\ entity.endpoint_path = Some(<<"/","a","p","i","/","u","s","e","r","s">>)
        /\ entity.decorators = <<Deco_cache>> => ~entity.is_api_endpoint

\* C5 witness: detection ran on two decorators of which only the second
\* holds a quoted run, and took the path from it
C5_Witness ==
    /\ last_op = "detect_api_endpoint"
    /\ Len(entity.decorators) = 2
    /\ ~HasQuotedRun(entity.decorators[1])
    /\ HasQuotedRun(entity.decorators[2])
    /\ entity.is_api_endpoint
    /\ entity.endpoint_path = Some(FirstQuotedRunText(entity.decorators[2]))

-----------------------------------------------------------------------------
(* Properties of the conversion to PyCodeEntity *)

FieldsBesidesFilePath ==
    {"entity_type", "name", "line_number", "docstring", "code", "is_async",
     "decorators", "parameters", "return_type", "is_internal",
     "is_api_endpoint", "endpoint_path", "http_methods", "complexity_score"}

\* C8: the conversion turns file_path into its display string and every
\* other field of the CodeEntity is present in the record with the same value.
C8_AllFieldsCarried ==
    last_op = "into" =>
        /\ py.file_path = to_string_lossy(entity.file_path)
        /\ \A f \in FieldsBesidesFilePath :
               /\ f \in DOMAIN py
               /\ py[f] = entity[f]

-----------------------------------------------------------------------------
(* parser.rs: the syntax tree *)

\* ast::Expr
Name(id) == [tag |-> "Name", id |-> id]

Attribute(value, attr) == [tag |-> "Attribute", value |-> value, attr |-> attr]

Call(func, args) == [tag |-> "Call", func |-> func, args |-> args]

Constant(text) == [tag |-> "Constant", value |-> text]

\* ast::ArgWithDefault and ast::Arg
Arg(name, annotation, default) ==
    [def |-> [arg |-> name, annotation |-> annotation], default |-> default]

\* ast::Arguments
Arguments(posonlyargs, args, vararg, kwonlyargs, kwarg) ==
    [posonlyargs |-> posonlyargs, args |-> args, vararg |-> vararg,
     kwonlyargs |-> kwonlyargs, kwarg |-> kwarg]

NoArguments == Arguments(<<>>, <<>>, None, <<>>, None)

\* faulty variant: a call is rendered with its first string argument
expr_to_string_with_arguments(expr) ==
    IF expr.tag = "Name" THEN expr.id
    ELSE IF expr.tag = "Call" /\ expr.func.tag = "Attribute"
              /\ expr.args # <<>> /\ expr.args[1].tag = "Constant"
         THEN expr.func.value.id \o <<".">> \o expr.func.attr
                  \o <<"(", DQ>> \o expr.args[1].value \o <<DQ, ")">>
    ELSE <<".", ".", ".">>

\* expr_to_string
RECURSIVE expr_to_string(_)
expr_to_string(expr) ==
    IF expr.tag = "Name" THEN expr.id
    ELSE IF expr.tag = "Attribute"
         THEN expr_to_string(expr.value) \o <<".">> \o expr.attr
    ELSE IF expr.tag = "Call"
         THEN expr_to_string(expr.func) \o <<"(", ".", ".", ".", ")">>
    ELSE <<".", ".", ".">>

\* extract_parameters
extract_parameters(args) ==
    [i \in DOMAIN args.args |-> args.args[i].def.arg]
        \o (IF args.vararg.some THEN << <<"*">> \o args.vararg.val.arg >> ELSE <<>>)
        \o (IF args.kwarg.some THEN << <<"*", "*">> \o args.kwarg.val.arg >> ELSE <<>>)

\* extract_docstring
extract_docstring(body) ==
    IF /\ body # <<>>
       /\ body[1].kind = "Expr"
       /\ body[1].value.tag = "Constant"
    THEN Some(body[1].value.value)
    ELSE None

-----------------------------------------------------------------------------
(* The source text: logical lines, each a statement header at an            *)
(* indentation depth.  A def or class line followed by deeper lines has     *)
(* them as its body; one with no deeper line is the one-line form           *)
(* (`def f(): pass`).                                                       *)

Stmt_f ==
    [kind |-> "FunctionDef", name |-> <<"f">>, decorator_list |-> <<>>,
     args |-> Arguments(<<>>, <<Arg(<<"a">>, None, None)>>,
                        Some([arg |-> <<"a","r","g","s">>]), <<>>,
                        Some([arg |-> <<"k","w","a","r","g","s">>])),
     returns |-> None, value |-> None]

Stmt_g ==
    [kind |-> "FunctionDef", name |-> <<"g">>,
     decorator_list |->
         <<Call(Attribute(Name(<<"a","p","p">>), <<"r","o","u","t","e">>),
                <<Constant(<<"/","a","p","i","/","u","s","e","r","s">>)>>)>>,
     args |-> Arguments(<<Arg(<<"p">>, None, None)>>,
                        <<Arg(<<"q">>, Some(Name(<<"i","n","t">>)),
                              Some(Constant(<<"0">>)))>>,
                        None, <<Arg(<<"k">>, None, None)>>, None),
     returns |-> Some(Name(<<"s","t","r">>)), value |-> None]

Stmt_h ==
    [kind |-> "AsyncFunctionDef", name |-> <<"h">>,
     decorator_list |-> <<Name(<<"c","a","c","h","e">>), Constant(<<"/","x">>)>>,
     args |-> NoArguments, returns |-> None, value |-> None]

Stmt_C ==
    [kind |-> "ClassDef", name |-> <<"C">>, decorator_list |-> <<>>,
     args |-> NoArguments, returns |-> None, value |-> None]

Stmt_D ==
    [kind |-> "ClassDef", name |-> <<"D">>,
     decorator_list |->
         <<Call(Attribute(Name(<<"a","p","i">>), <<"m","o","d","e","l">>),
                <<Constant(<<"D">>)>>)>>,
     args |-> NoArguments, returns |-> None, value |-> None]

Stmt_doc ==
    [kind |-> "Expr", name |-> <<>>, decorator_list |-> <<>>,
     args |-> NoArguments, returns |-> None,
     value |-> Constant(<<"d","o","c">>)]

Stmt_pass ==
    [kind |-> "Pass", name |-> <<>>, decorator_list |-> <<>>,
     args |-> NoArguments, returns |-> None, value |-> None]

\* a line the grammar rejects
Stmt_invalid ==
    [kind |-> "Invalid", name |-> <<>>, decorator_list |-> <<>>,
     args |-> NoArguments, returns |-> None, value |-> None]

\* the statement headers the texts are written with
Text_f == "def f(a, *args, **kwargs):"

Text_g == "@app.route(\"/api/users\") def g(p, /, q: int = 0, *, k) -> str:"

Text_h == "@cache @\"/x\" async def h():"

Text_C == "class C:"

Text_D == "@api.model(\"D\") class D:"

Text_doc == "\"doc\""

Text_invalid == "def ("

Headers == {Text_f, Text_g, Text_h, Text_C, Text_D, Text_doc, Text_invalid}

\* the statement the grammar reads from one header
ParseHeader(text) ==
    CASE text = Text_f -> Stmt_f
      [] text = Text_g -> Stmt_g
      [] text = Text_h -> Stmt_h
      [] text = Text_C -> Stmt_C
      [] text = Text_D -> Stmt_D
      [] text = Text_doc -> Stmt_doc
      [] OTHER -> Stmt_invalid

Lines == {[depth |-> d, text |-> t] : d \in 0..MaxDepth, t \in Headers}

\* no line is indented more than one level deeper than the line before it
IndentedStepwise(s) ==
    \A i \in DOMAIN s : s[i].depth <= (IF i = 1 THEN 0 ELSE s[i - 1].depth) + 1

IsCompound(st) == st.kind \in {"FunctionDef", "AsyncFunctionDef", "ClassDef"}

StmtOf(s, i) == ParseHeader(s[i].text)

\* whether ast::Suite::parse accepts the text: every line is a statement,
\* the first is not indented, and a line is indented deeper than the one
\* before it only when that one opens a block
Parses(s) ==
    /\ \A i \in DOMAIN s : StmtOf(s, i).kind # "Invalid"
    /\ s # <<>> => s[1].depth = 0
    /\ \A i \in 2..Len(s) :
           s[i].depth > s[i - 1].depth =>
               (s[i].depth = s[i - 1].depth + 1 /\ IsCompound(StmtOf(s, i - 1)))

\* an ast::Stmt node: the statement, its body and its source position
Node(st, body, line) ==
    [kind |-> st.kind, name |-> st.name, decorator_list |-> st.decorator_list,
     args |-> st.args, returns |-> st.returns, value |-> st.value,
     body |-> body, line |-> line]

\* end of the block that line lo opens at depth d: the last line before the
\* next line of depth <= d
RECURSIVE BlockEnd(_, _, _)
BlockEnd(s, lo, d) ==
    IF lo + 1 > Len(s) \/ s[lo + 1].depth <= d THEN lo
    ELSE BlockEnd(s, lo + 1, d)

\* the ast::Stmt nodes of lines lo..hi whose statements sit at depth d
RECURSIVE Suite(_, _, _, _)
Suite(s, lo, hi, d) ==
    IF lo > hi THEN <<>>
    ELSE LET end  == BlockEnd(s, lo, d)
             body == IF ~IsCompound(StmtOf(s, lo)) THEN <<>>
                     ELSE IF end = lo THEN <<Node(Stmt_pass, <<>>, lo)>>
                     ELSE Suite(s, lo + 1, end, d + 1)
         IN  <<Node(StmtOf(s, lo), body, lo)>> \o Suite(s, end + 1, hi, d)

\* ast::Suite::parse on an accepted text
Parse(s) == Suite(s, 1, Len(s), 0)

-----------------------------------------------------------------------------
(* parser.rs: EntityVisitor and PythonParser *)

\* decorator_list.iter().map(|d| expr_to_string(d)).collect()
DecoratorStringsOf(decorator_list) ==
    [i \in DOMAIN decorator_list |-> expr_to_string(decorator_list[i])]

ReturnTypeOf(returns) ==
    IF returns.some THEN Some(expr_to_string(returns.val)) ELSE None

EntityTypeFor(ctx) == IF ctx = <<>> THEN Str_function ELSE Str_method

\* faulty variant: the endpoint detector is not run
visit_function_entity_no_detect(func, ctx, path) ==
    LET e == CodeEntity_new(EntityTypeFor(ctx), func.name, path, 1)
        filled == [e EXCEPT
                     !.docstring = extract_docstring(func.body),
                     !.decorators = DecoratorStringsOf(func.decorator_list),
                     !.parameters = extract_parameters(func.args),
                     !.return_type = ReturnTypeOf(func.returns),
                     !.code = <<"d","e","f"," ">> \o func.name
                                  \o <<"(",".",".",".",")",":"," ",".",".",".">>]
    IN  calculate_complexity(filled)

\* the entity visit_function pushes
visit_function_entity(func, ctx, path) ==
    LET e == CodeEntity_new(EntityTypeFor(ctx), func.name, path, 1)
        filled == [e EXCEPT
                     !.docstring = extract_docstring(func.body),
                     !.decorators = DecoratorStringsOf(func.decorator_list),
                     !.parameters = extract_parameters(func.args),
                     !.return_type = ReturnTypeOf(func.returns),
                     !.code = <<"d","e","f"," ">> \o func.name
                                  \o <<"(",".",".",".",")",":"," ",".",".",".">>]
    IN  calculate_complexity(detect_api_endpoint(filled))

\* the entity visit_async_function pushes
visit_async_function_entity(func, ctx, path) ==
    LET e == CodeEntity_new(EntityTypeFor(ctx), func.name, path, 1)
        filled == [e EXCEPT
                     !.is_async = TRUE,
                     !.docstring = extract_docstring(func.body),
                     !.decorators = DecoratorStringsOf(func.decorator_list),
                     !.parameters = extract_parameters(func.args),
                     !.return_type = ReturnTypeOf(func.returns),
                     !.code = <<"a","s","y","n","c"," ","d","e","f"," ">> \o func.name
                                  \o <<"(",".",".",".",")",":"," ",".",".",".">>]
    IN  calculate_complexity(detect_api_endpoint(filled))

\* the entity visit_class pushes
visit_class_entity(class, path) ==
    LET e == CodeEntity_new(Str_class, class.name, path, 1)
    IN  [e EXCEPT !.docstring = extract_docstring(class.body),
                  !.decorators = DecoratorStringsOf(class.decorator_list)]

\* faulty variant: nothing is popped
pop_forgotten(v) == v

\* Vec::pop (the popped value is dropped)
pop(v) == IF v = <<>> THEN v ELSE SubSeq(v, 1, Len(v) - 1)

Top == frames[Len(frames)]

HasCurrent == pc = "visit" /\ Top.idx <= Len(Top.body)

Current == Top.body[Top.idx]

\* the enclosing `for` loop moves to its next statement
Advance(fs) == [fs EXCEPT ![Len(fs)].idx = @ + 1]

Init ==
    /\ file_path \in Paths
    /\ \/ /\ readable = TRUE
          /\ \E n \in 0..MaxLines : source \in [1..n -> Lines]
          /\ IndentedStepwise(source)
       \/ /\ readable = FALSE
          /\ source = <<>>
    /\ pc = "start"
    /\ frames = <<>>
    /\ class_context = <<>>
    /\ entities = <<>>
    /\ result = [kind |-> "none", entities |-> <<>>]
    /\ origin = <<>>
    /\ ctx_at_visit = <<>>
    /\ entity = CodeEntity_new(Str_function, <<>>, file_path, 1)
    /\ prev_path = None
    /\ last_op = "idle"
    /\ py = <<>>

\* parse_file: fs::read_to_string fails
ParseFileReadError ==
    /\ pc = "start"
    /\ ~readable
    /\ result' = [kind |-> "io_error", entities |-> <<>>]
    /\ pc' = "done"
    /\ UNCHANGED <<source, file_path, readable, frames, class_context, entities,
                   origin, ctx_at_visit, entityVars>>

\* faulty variant: the parse error is swallowed and an empty list returned
ParseSourceError_swallowed ==
    /\ pc = "start"
    /\ readable
    /\ ~Parses(source)
    /\ result' = [kind |-> "ok", entities |-> <<>>]
    /\ pc' = "done"
    /\ UNCHANGED <<source, file_path, readable, frames, class_context, entities,
                   origin, ctx_at_visit, entityVars>>

\* parse_source: ast::Suite::parse fails and `?` returns the error
ParseSourceError ==
    /\ pc = "start"
    /\ readable
    /\ ~Parses(source)
    /\ result' = [kind |-> "parse_error", entities |-> <<>>]
    /\ pc' = "done"
    /\ UNCHANGED <<source, file_path, readable, frames, class_context, entities,
                   origin, ctx_at_visit, entityVars>>

\* parse_source: the text parses; the visitor is created and the loop over
\* the top-level statements begins
ParseSourceBegin ==
    /\ pc = "start"
    /\ readable
    /\ Parses(source)
    /\ frames' = <<[body |-> Parse(source), idx |-> 1]>>
    /\ class_context' = <<>>
    /\ entities' = <<>>
    /\ pc' = "visit"
    /\ UNCHANGED <<source, file_path, readable, result, origin, ctx_at_visit,
                   entityVars>>

\* visit_stmt -> visit_function
VisitFunction ==
    /\ HasCurrent
    /\ Current.kind = "FunctionDef"
    /\ entities' = Append(entities,
                          visit_function_entity(Current, class_context, file_path))
    /\ origin' = Append(origin, Current.line)
    /\ ctx_at_visit' = Append(ctx_at_visit, Len(class_context))
    /\ frames' = Advance(frames)
    /\ UNCHANGED <<source, file_path, readable, pc, class_context, result,
                   entityVars>>

\* visit_stmt -> visit_async_function
VisitAsyncFunction ==
    /\ HasCurrent
    /\ Current.kind = "AsyncFunctionDef"
    /\ entities' = Append(entities,
                          visit_async_function_entity(Current, class_context, file_path))
    /\ origin' = Append(origin, Current.line)
    /\ ctx_at_visit' = Append(ctx_at_visit, Len(class_context))
    /\ frames' = Advance(frames)
    /\ UNCHANGED <<source, file_path, readable, pc, class_context, result,
                   entityVars>>

\* faulty variant: the loop over the class body starts at its second statement
VisitClass_skipping_first ==
    /\ HasCurrent
    /\ Current.kind = "ClassDef"
    /\ entities' = Append(entities, visit_class_entity(Current, file_path))
    /\ origin' = Append(origin, Current.line)
    /\ ctx_at_visit' = Append(ctx_at_visit, Len(class_context))
    /\ class_context' = Append(class_context, Current.name)
    /\ frames' = Append(frames, [body |-> Current.body, idx |-> 2])
    /\ UNCHANGED <<source, file_path, readable, pc, result, entityVars>>

\* visit_stmt -> visit_class, up to the start of the loop over the body: the
\* class entity is pushed and the class name goes on the context stack
VisitClass ==
    /\ HasCurrent
    /\ Current.kind = "ClassDef"
    /\ entities' = Append(entities, visit_class_entity(Current, file_path))
    /\ origin' = Append(origin, Current.line)
    /\ ctx_at_visit' = Append(ctx_at_visit, Len(class_context))
    /\ class_context' = Append(class_context, Current.name)
    /\ frames' = Append(frames, [body |-> Current.body, idx |-> 1])
    /\ UNCHANGED <<source, file_path, readable, pc, result, entityVars>>

\* visit_class, after the loop over the body: the context is popped and the
\* enclosing loop goes on
VisitClassReturn ==
    /\ pc = "visit"
    /\ Len(frames) > 1
    /\ Top.idx > Len(Top.body)
    /\ class_context' = pop(class_context)
    /\ frames' = Advance(SubSeq(frames, 1, Len(frames) - 1))
    /\ UNCHANGED <<source, file_path, readable, pc, entities, result, origin,
                   ctx_at_visit, entityVars>>

\* visit_stmt: `_ => {}`
VisitOther ==
    /\ HasCurrent
    /\ Current.kind \notin {"FunctionDef", "AsyncFunctionDef", "ClassDef"}
    /\ frames' = Advance(frames)
    /\ UNCHANGED <<source, file_path, readable, pc, class_context, entities,
                   result, origin, ctx_at_visit, entityVars>>

\* parse_source: the loop over the top-level statements ends, Ok(entities)
ParseSourceReturn ==
    /\ pc = "visit"
    /\ Len(frames) = 1
    /\ Top.idx > Len(Top.body)
    /\ result' = [kind |-> "ok", entities |-> entities]
    /\ pc' = "done"
    /\ UNCHANGED <<source, file_path, readable, frames, class_context, entities,
                   origin, ctx_at_visit, entityVars>>

Next ==
    \/ ParseFileReadError
    \/ ParseSourceError
    \/ ParseSourceBegin
    \/ VisitFunction
    \/ VisitAsyncFunction
    \/ VisitClass
    \/ VisitClassReturn
    \/ VisitOther
    \/ ParseSourceReturn

Spec == Init /\ [][Next]_vars

-----------------------------------------------------------------------------
(* Properties of the traversal, stated on the source text *)

KindAt(s, i) ==
    IF s[i].text \in {Text_f, Text_g} THEN "FunctionDef"
    ELSE IF s[i].text = Text_h THEN "AsyncFunctionDef"
    ELSE IF s[i].text \in {Text_C, Text_D} THEN "ClassDef"
    ELSE "Other"

IsDefLine(s, i) == KindAt(s, i) \in {"FunctionDef", "AsyncFunctionDef"}

IsClassLine(s, i) == KindAt(s, i) = "ClassDef"

\* the line whose block line i is a direct statement of (i is indented)
ParentLine(s, i) ==
    CHOOSE k \in 1..(i - 1) :
        /\ s[k].depth = s[i].depth - 1
        /\ \A m \in (k + 1)..(i - 1) : s[m].depth >= s[i].depth

InClassBody(s, i) == s[i].depth > 0 /\ IsClassLine(s, ParentLine(s, i))

\* line i is a top-level statement or sits in class bodies only
RECURSIVE OnlyInClasses(_, _)
OnlyInClasses(s, i) ==
    \/ s[i].depth = 0
    \/ InClassBody(s, i) /\ OnlyInClasses(s, ParentLine(s, i))

\* the last line of the block that line c opens
LastLineOf(s, c) ==
    CHOOSE j \in c..Len(s) :
        /\ \A m \in (c + 1)..j : s[m].depth > s[c].depth
        /\ (j < Len(s) => s[j + 1].depth <= s[c].depth)

Returned == pc = "done" /\ result.kind = "ok"

\* C1: a definition is emitted as "method" exactly when the class-context
\* stack was nonempty when it was visited, else as "function"; the stack is
\* nonempty exactly while a class body is being traversed; a definition
\* directly in a class body is a method, a top-level one a function (also
\* after a class), and the stack is empty when parse_source returns.
C1_MethodIffInClassBody ==
    /\ \A k \in DOMAIN entities :
           IsDefLine(source, origin[k]) =>
               /\ entities[k].entity_type = Str_method <=> ctx_at_visit[k] > 0
               /\ entities[k].entity_type = Str_function <=> ctx_at_visit[k] = 0
               /\ ctx_at_visit[k] > 0 <=> InClassBody(source, origin[k])
    /\ pc = "visit" => (class_context # <<>> <=> Len(frames) > 1)
    /\ Returned =>
           /\ class_context = <<>>
           /\ \A i \in DOMAIN source :
                  (IsDefLine(source, i) /\ OnlyInClasses(source, i)) =>
                      \E k \in DOMAIN entities :
                          /\ origin[k] = i
                          /\ entities[k].entity_type =
                                 (IF source[i].depth = 0 THEN Str_function ELSE Str_method)

\* C1 witness: a class, a definition in its body and a top-level definition
\* after it came out as class, method, function
C1_Witness ==
    /\ Returned
    /\ Len(source) = 3
    /\ IsClassLine(source, 1)
    /\ IsDefLine(source, 2) /\ source[2].depth = 1
    /\ IsDefLine(source, 3) /\ source[3].depth = 0
    /\ [k \in DOMAIN result.entities |-> result.entities[k].entity_type]
           = <<Str_class, Str_method, Str_function>>

\* C2: entities keep source order; a class entity precedes every entity
\* that comes from its body; a class with N direct method definitions and no
\* nested class yields exactly 1 + N contiguous entities, the class first and
\* then its methods in declaration order.
C2_ClassThenMembers ==
    Returned =>
        /\ result.entities = entities
        /\ \A k \in DOMAIN entities :
               entities[k].name = ParseHeader(source[origin[k]].text).name
        /\ \A k \in 1..(Len(origin) - 1) : origin[k] < origin[k + 1]
        /\ \A k \in DOMAIN entities :
               entities[k].entity_type = Str_class =>
                   LET c == origin[k]
                       last == LastLineOf(source, c)
                       members == {i \in (c + 1)..last : source[i].depth = source[c].depth + 1}
                       methods == {i \in members : IsDefLine(source, i)}
                   IN  /\ \A j \in DOMAIN entities : origin[j] \in (c + 1)..last => j > k
                       /\ (\A i \in members : ~IsClassLine(source, i)) =>
                              /\ {j \in DOMAIN entities : origin[j] \in c..last}
                                     = k..(k + Cardinality(methods))
                              /\ {origin[j] : j \in (k + 1)..(k + Cardinality(methods))}
                                     = methods
                              /\ \A j \in (k + 1)..(k + Cardinality(methods)) :
                                     entities[j].entity_type = Str_method

\* C2 witness: a class with two direct methods was returned as three entities
C2_Witness ==
    /\ Returned
    /\ Len(source) = 3
    /\ IsClassLine(source, 1)
    /\ IsDefLine(source, 2) /\ source[2].depth = 1
    /\ IsDefLine(source, 3) /\ source[3].depth = 1
    /\ Len(result.entities) = 3

NamesOf(as) == [i \in DOMAIN as |-> as[i].def.arg]

\* C6: parameters of a function or method entity is the declared
\* positional-only and positional-or-keyword names in order, then "*" and the
\* variadic name, then "**" and the keyword-variadic name.
C6_AllPositionalCaptured ==
    \A k \in DOMAIN entities :
        IsDefLine(source, origin[k]) =>
            LET a == ParseHeader(source[origin[k]].text).args
            IN  entities[k].parameters =
                    NamesOf(a.posonlyargs) \o NamesOf(a.args)
                        \o (IF a.vararg.some THEN << <<"*">> \o a.vararg.val.arg >> ELSE <<>>)
                        \o (IF a.kwarg.some THEN << <<"*","*">> \o a.kwarg.val.arg >> ELSE <<>>)

OpensBlock(s, i) == s[i].text \in {Text_f, Text_g, Text_h, Text_C, Text_D}

\* the text is not valid Python
SyntaxError(s) ==
    \/ \E i \in DOMAIN s : s[i].text = Text_invalid
    \/ s # <<>> /\ s[1].depth > 0
    \/ \E i \in 2..Len(s) : s[i].depth > s[i - 1].depth /\ ~OpensBlock(s, i - 1)

\* C7: on a text with a syntax error, wherever it lies, the visitor never
\* starts and parse_source returns one parse error and no entities; an
\* unreadable file gives a different error, and no entities either.
C7_ParseErrorNoEntities ==
    /\ (readable /\ SyntaxError(source)) =>
           /\ pc # "visit"
           /\ entities = <<>> /\ frames = <<>> /\ origin = <<>>
           /\ pc = "done" => result = [kind |-> "parse_error", entities |-> <<>>]
    /\ ~readable =>
           /\ pc # "visit"
           /\ entities = <<>> /\ frames = <<>>
           /\ pc = "done" => result = [kind |-> "io_error", entities |-> <<>>]
    /\ (readable /\ ~SyntaxError(source) /\ pc = "done") => result.kind = "ok"

\* C7 witness: a text whose only error is on its third line, after a valid
\* definition, was answered with the parse error
C7_Witness ==
    /\ pc = "done"
    /\ result.kind = "parse_error"
    /\ Len(source) = 3
    /\ source[1] = [depth |-> 0, text |-> Text_f]
    /\ source[2] = [depth |-> 0, text |-> Text_C]
    /\ source[3].text = Text_invalid

\* the score the complexity formula gives an entity
ScoreOf(e) ==
    1 + Len(e.parameters) + Occurrences(e.code, <<"{">>)
      + KeywordOccurrences(e.code) + (IF e.is_async THEN 2 ELSE 0)

\* C9 as stated: every emitted entity, classes included, carries the
\* detector's verdict on its decorators and the scorer's result.
C9_EveryEntityPostProcessed ==
    \A k \in DOMAIN entities :
        /\ entities[k].is_api_endpoint = LooksLikeApi(entities[k].decorators)
        /\ entities[k].complexity_score = ScoreOf(entities[k])

C9_FunctionsPostProcessedNow ==
    \A k \in DOMAIN entities :
        /\ entities[k].entity_type \in {Str_function, Str_method} =>
               /\ entities[k].is_api_endpoint = LooksLikeApi(entities[k].decorators)
               /\ entities[k].complexity_score = ScoreOf(entities[k])
        /\ entities[k].entity_type = Str_class =>
               /\ entities[k].is_api_endpoint = FALSE
               /\ entities[k].endpoint_path = None
               /\ entities[k].complexity_score = 1

C9_AppendOnly ==
    \A k \in DOMAIN entities : k \in DOMAIN entities' /\ entities'[k] = entities[k]

\* C9 amended: every function and method entity carries the detector's
\* verdict on its decorators and the scorer's result; a class entity is
\* appended with neither run (is_api_endpoint false, endpoint_path none,
\* complexity_score 1); no entity changes after it was appended.
C9_FunctionsPostProcessed ==
    []C9_FunctionsPostProcessedNow /\ [][C9_AppendOnly]_vars

\* C9 witness: a class whose decorator looks like an endpoint was returned
\* unflagged, before a method of it that is flagged
C9_Witness ==
    /\ Returned
    /\ Len(result.entities) >= 2
    /\ result.entities[1].entity_type = Str_class
    /\ LooksLikeApi(result.entities[1].decorators)
    /\ ~result.entities[1].is_api_endpoint
    /\ result.entities[2].entity_type = Str_method
    /\ result.entities[2].is_api_endpoint

\* C10: no entity of parse_source has an endpoint_path: no decorator string
\* holds a quote, so the quoted-literal search never matches, also for
\* @app.route("/api/users").
C10_NoEndpointPath ==
    /\ \A k \in DOMAIN entities :
           /\ entities[k].endpoint_path = None
           /\ \A d \in DOMAIN entities[k].decorators :
                  \A c \in DOMAIN entities[k].decorators[d] :
                      ~IsQuote(entities[k].decorators[d][c])
    /\ Returned => \A k \in DOMAIN result.entities :
                       result.entities[k].endpoint_path = None

\* C10 witness: the function under @app.route("/api/users") was returned
\* flagged as an endpoint, with the decorator "app.route(...)" and no path
C10_Witness ==
    /\ Returned
    /\ \E k \in DOMAIN result.entities :
           /\ source[origin[k]].text = Text_g
           /\ result.entities[k].decorators =
                  << <<"a","p","p",".","r","o","u","t","e","(",".",".",".",")">> >>
           /\ result.entities[k].is_api_endpoint
           /\ result.entities[k].endpoint_path = None

=============================================================================
